---- MODULE Spec2Model ----
(***************************************************************************)
(* Model of vizier_stats.py: the classification of bibcodes into journal   *)
(* codes, the thresholded count per journal, the incremental resolution of *)
(* journal names against journal_names.json and the ADS journals service,  *)
(* and the family / sub-journal columns computed for the sunburst chart.   *)
(*                                                                         *)
(* Python strings that the program cuts apart (bibcodes, journal codes)    *)
(* are sequences of one-character strings.  Journal names are only ever    *)
(* compared and looked up, so they are TLA+ strings.                       *)
(***************************************************************************)
EXTENDS Integers, Sequences, FiniteSets, TLC

VARIABLES
    pc,                  \* where the process is in main and in the resolver
    metadata,            \* the "bibcode" column of the table VizieR returned
    cut,                 \* threshold passed to get_count_for_journals
    counts_per_journals, \* rows (index, n) returned by get_count_for_journals
    file,                \* content of journal_names.json
    current_list,        \* the resolver's in-memory dict
    updated,             \* the resolver's flag
    pos,                 \* position of the resolver's for loop
    hierarchy,           \* count_per_journal with the two name columns
    calls,               \* history: codes sent to the ADS service in this run
    status,              \* history: status code of the last ADS answer
    writes,              \* history: json.dump calls in this run
    file0,               \* history: content of the file when the run began
    noNewCodes,          \* history: the previous run's resolver returned
                         \*   and this run's table yields no index it lacked
    prevOK,              \* history, between runs: the resolver returned
    prevCodes            \* history, between runs: the index values it had

vars == <<pc, metadata, cut, counts_per_journals, file, current_list, updated,
          pos, hierarchy, calls, status, writes, file0, noNewCodes,
                   prevOK, prevCodes>>

(***************************************************************************)
(* Bounds of the model.                                                    *)
(***************************************************************************)
MaxRecords == 3
MaxCut == 2

(***************************************************************************)
(* Input domains.                                                          *)
(***************************************************************************)
\* rows of the METAcat table: the values of the "bibcode" column
Bibcodes ==
    { <<"2","0","2","1","A","+","A",".","1">>,
      <<"2","0","2","0","A","p","J","(","L",")",".","3">>,
      <<"2","0","2","1","A","J">>,
      <<"2","0","2">>,
      <<"2","0","2","1","o","t","h","e","r",".","1">> }

\* journal names the ADS service may answer with
ServiceNames == {"Astronomy and Astrophysics", "Icarus"}

\* HTTP status codes of the ADS answer
StatusCodes == {200, 404}

other == <<"o","t","h","e","r">>

AandA == <<"A","&","A">>

\* contents journal_names.json may have before the first run
EmptyMap == [k \in {} |-> ""]

InitialFiles ==
    { EmptyMap,
      [k \in {AandA} |-> "Astronomy and Astrophysics"] }

NaN == "NaN"

(***************************************************************************)
(* Python string primitives.                                               *)
(***************************************************************************)
\* s[n:] that leaves a string shorter than n as it is
SliceFromKeepsShort(s, n) == IF Len(s) <= n THEN s ELSE SubSeq(s, n + 1, Len(s))

\* s[n:]
SliceFrom(s, n) == IF Len(s) <= n THEN <<>> ELSE SubSeq(s, n + 1, Len(s))

\* s.split(sep)[0]
SplitFirst(s, sep) ==
    IF \E k \in DOMAIN s : s[k] = sep
    THEN LET k == CHOOSE k \in DOMAIN s :
                     s[k] = sep /\ \A j \in 1..(k - 1) : s[j] # sep
         IN  SubSeq(s, 1, k - 1)
    ELSE s

\* s.replace(old, new) for one-character old and new
ReplaceChar(s, old, new) ==
    [k \in DOMAIN s |-> IF s[k] = old THEN new ELSE s[k]]

\* ord(c) for the characters that occur
CodePoint(c) ==
    CASE c = "&" -> 38 [] c = "(" -> 40 [] c = ")" -> 41 [] c = "+" -> 43
      [] c = "." -> 46 [] c = "0" -> 48 [] c = "1" -> 49 [] c = "2" -> 50
      [] c = "3" -> 51 [] c = "A" -> 65 [] c = "J" -> 74 [] c = "L" -> 76
      [] c = "e" -> 101 [] c = "h" -> 104 [] c = "o" -> 111 [] c = "p" -> 112
      [] c = "r" -> 114 [] c = "t" -> 116

\* a < b on Python strings
StrLess(a, b) ==
    \E k \in 1..(Len(a) + 1) :
        /\ k - 1 <= Len(b)
        /\ \A j \in 1..(k - 1) : a[j] = b[j]
        /\ \/ k = Len(a) + 1 /\ Len(b) >= k
           \/ k <= Len(a) /\ k <= Len(b) /\ CodePoint(a[k]) < CodePoint(b[k])

\* the keys of a groupby, in the sorted order pandas emits them
RECURSIVE SortedKeys(_)
SortedKeys(S) ==
    IF S = {} THEN <<>>
    ELSE LET m == CHOOSE x \in S : \A y \in S \ {x} : StrLess(x, y)
         IN  <<m>> \o SortedKeys(S \ {m})

(***************************************************************************)
(* get_count_for_journals                                                  *)
(***************************************************************************)
\* the cleaning steps applied to one bibcode
Classify(bibcode) ==
    LET step1 == SplitFirst(SliceFrom(bibcode, 4), ".")
        step2 == ReplaceChar(step1, "+", "&")
    IN  SplitFirst(step2, "(")

journal_code(md) == [k \in DOMAIN md |-> Classify(md[k])]

\* metadata.groupby(journal_code).count(), columns index and number_catalogs
count_journal(md) ==
    LET jc   == journal_code(md)
        keys == SortedKeys({jc[k] : k \in DOMAIN jc})
    IN  [j \in DOMAIN keys |->
            [index |-> keys[j],
             n     |-> Cardinality({k \in DOMAIN jc : jc[k] = keys[j]})]]

\* the .loc assignment without its test for the empty string
ToOtherBelowCutOnly(row, c) ==
    IF row.n < c THEN [index |-> other, n |-> row.n] ELSE row

\* the .loc assignment of "other"
ToOther(row, c) ==
    IF row.n < c \/ row.index = <<>>
    THEN [index |-> other, n |-> row.n]
    ELSE row

RECURSIVE SumN(_, _)
SumN(rows, key) ==
    IF rows = <<>> THEN 0
    ELSE (IF Head(rows).index = key THEN Head(rows).n ELSE 0)
         + SumN(Tail(rows), key)

\* groupby("index").count() in place of .sum()
GroupCountRows(rows) ==
    LET keys == SortedKeys({rows[j].index : j \in DOMAIN rows})
    IN  [j \in DOMAIN keys |->
            [index |-> keys[j],
             n     |-> Cardinality({i \in DOMAIN rows : rows[i].index = keys[j]})]]

\* groupby("index").sum()
GroupSum(rows) ==
    LET keys == SortedKeys({rows[j].index : j \in DOMAIN rows})
    IN  [j \in DOMAIN keys |-> [index |-> keys[j], n |-> SumN(rows, keys[j])]]

get_count_for_journals(md, c) ==
    LET cj == count_journal(md)
    IN  GroupSum([j \in DOMAIN cj |-> ToOther(cj[j], c)])

(***************************************************************************)
(* get_dict_of_journals_names                                              *)
(***************************************************************************)
Index(rows) == [j \in DOMAIN rows |-> rows[j].index]

\* the condition without its test for known keys
NeedsLookupKnownToo(index, names) == index # other

\* the condition without its test for "other"
NeedsLookupOtherToo(index, names) == index \notin DOMAIN names

\* the condition guarding the request
NeedsLookup(index, names) == index \notin DOMAIN names /\ index # other

\* current_list = {index: journal_name}
DictReplace(d, key, value) == [k \in {key} |-> value]

\* current_list.update({index: journal_name})
DictUpdate(d, key, value) ==
    [k \in DOMAIN d \cup {key} |-> IF k = key THEN value ELSE d[k]]

\* with open(...) : current_list = json.load(...) ; updated = False
ResolverLoad ==
    /\ pc = "resolver"
    /\ current_list' = file
    /\ updated' = FALSE
    /\ pos' = 1
    /\ pc' = "loop"
    /\ UNCHANGED <<metadata, cut, counts_per_journals, file, hierarchy, calls,
                   status, writes, file0, noNewCodes,
                   prevOK, prevCodes>>

\* an iteration whose index is already known, or is "other"
ResolverSkip ==
    /\ pc = "loop"
    /\ pos <= Len(counts_per_journals)
    /\ ~NeedsLookup(counts_per_journals[pos].index, current_list)
    /\ pos' = pos + 1
    /\ UNCHANGED <<pc, metadata, cut, counts_per_journals, file, current_list,
                   updated, hierarchy, calls, status, writes, file0,
                   noNewCodes, prevOK, prevCodes>>

\* an iteration that asks ADS and gets status 200
ResolverFound ==
    /\ pc = "loop"
    /\ pos <= Len(counts_per_journals)
    /\ NeedsLookup(counts_per_journals[pos].index, current_list)
    /\ \E journal_name \in ServiceNames :
           current_list' = DictUpdate(current_list,
                                      counts_per_journals[pos].index,
                                      journal_name)
    /\ updated' = TRUE
    /\ calls' = Append(calls, counts_per_journals[pos].index)
    /\ status' = 200
    /\ pos' = pos + 1
    /\ UNCHANGED <<pc, metadata, cut, counts_per_journals, file, hierarchy,
                   writes, file0, noNewCodes,
                   prevOK, prevCodes>>

\* the raise with the json.dump moved into a finally block
ResolverRaiseThenSave ==
    /\ pc = "loop"
    /\ pos <= Len(counts_per_journals)
    /\ NeedsLookup(counts_per_journals[pos].index, current_list)
    /\ \E code \in StatusCodes \ {200} : status' = code
    /\ calls' = Append(calls, counts_per_journals[pos].index)
    /\ file' = IF updated THEN current_list ELSE file
    /\ writes' = IF updated THEN writes + 1 ELSE writes
    /\ pc' = "raised"
    /\ UNCHANGED <<metadata, cut, counts_per_journals, current_list, updated,
                   pos, hierarchy, file0, noNewCodes, prevOK, prevCodes>>

\* an iteration that asks ADS and gets another status: raise Warning
ResolverRaise ==
    /\ pc = "loop"
    /\ pos <= Len(counts_per_journals)
    /\ NeedsLookup(counts_per_journals[pos].index, current_list)
    /\ \E code \in StatusCodes \ {200} : status' = code
    /\ calls' = Append(calls, counts_per_journals[pos].index)
    /\ pc' = "raised"
    /\ UNCHANGED <<metadata, cut, counts_per_journals, file, current_list,
                   updated, pos, hierarchy, writes, file0, noNewCodes,
                   prevOK, prevCodes>>

\* the end of the resolver without its json.dump
SavedNever(f, names, dirty) == f

\* the file as the end of the resolver leaves it; json.dump followed by
\* json.load gives back a dict of str keys and str values unchanged
Saved(f, names, dirty) == IF dirty THEN names ELSE f

\* if updated: json.dump(current_list, file)
ResolverSave ==
    /\ pc = "loop"
    /\ pos > Len(counts_per_journals)
    /\ file' = Saved(file, current_list, updated)
    /\ writes' = IF updated THEN writes + 1 ELSE writes
    /\ pc' = "plot"
    /\ UNCHANGED <<metadata, cut, counts_per_journals, current_list, updated,
                   pos, hierarchy, calls, status, file0, noNewCodes,
                   prevOK, prevCodes>>

(***************************************************************************)
(* plot_pie_chart, up to the columns handed to px.sunburst                 *)
(***************************************************************************)
AAJournals == "Astronomy & Astrophysics Journals"

AASJournals == "American Astronomical Society Journals"

principal_journal ==
    [name \in {"Astronomy and Astrophysics",
               "Astronomy and Astrophysics Supplement Series",
               "The Astronomical Journal",
               "The Astrophysical Journal",
               "The Astrophysical Journal Supplement Series"} |->
        IF name \in {"Astronomy and Astrophysics",
                     "Astronomy and Astrophysics Supplement Series"}
        THEN AAJournals ELSE AASJournals]

OtherLabel(c) == "journals with less than " \o ToString(c) \o " catalogues"

\* count_per_journal["index"].map(journal_names), "other" added to the dict
SubJournalName(index, names, c) ==
    IF index = other THEN OtherLabel(c)
    ELSE IF index \in DOMAIN names THEN names[index]
    ELSE NaN

\* .replace(principal_journal)
JournalName(sub) ==
    IF sub \in DOMAIN principal_journal THEN principal_journal[sub] ELSE sub

\* the column left as mapped, without the np.nan assignment
SubKept(sub, family) == sub

\* the .loc assignment of np.nan (NaN == NaN is False)
SubOrNaN(sub, family) == IF sub # NaN /\ sub = family THEN NaN ELSE sub

HierarchyRow(row, names, c) ==
    LET sub    == SubJournalName(row.index, names, c)
        family == JournalName(sub)
    IN  [index |-> row.index, n |-> row.n,
         family |-> family, sub |-> SubOrNaN(sub, family)]

PlotPieChart ==
    /\ pc = "plot"
    /\ hierarchy' = [j \in DOMAIN counts_per_journals |->
                        HierarchyRow(counts_per_journals[j], file, cut)]
    /\ pc' = "done"
    /\ UNCHANGED <<metadata, cut, counts_per_journals, file, current_list,
                   updated, pos, calls, status, writes, file0,
                   noNewCodes, prevOK, prevCodes>>

(***************************************************************************)
(* main                                                                    *)
(***************************************************************************)
\* the tables VizieR may return, up to the order of their rows: the script
\* reads the rows only through groupby, which sorts its keys
Tables ==
    { t \in UNION {[1..n -> Bibcodes] : n \in 0..MaxRecords} :
          \A k \in 1..(Len(t) - 1) : t[k] = t[k + 1] \/ StrLess(t[k], t[k + 1]) }

\* the script is started: the table is fetched and the threshold set.
\* main passes cut = 250; get_count_for_journals takes any cut, and the
\* thresholds tried here are those a table of MaxRecords rows can reach.
Query ==
    /\ pc = "main"
    /\ metadata' \in Tables
    /\ cut' \in 0..MaxCut
    /\ noNewCodes' =
           /\ prevOK
           /\ LET counts == get_count_for_journals(metadata', cut')
              IN  \A j \in DOMAIN counts : counts[j].index \in prevCodes
    /\ prevOK' = FALSE
    /\ prevCodes' = {}
    /\ pc' = "count"
    /\ UNCHANGED <<counts_per_journals, file, current_list, updated, pos,
                   hierarchy, calls, status, writes, file0>>

GetCount ==
    /\ pc = "count"
    /\ counts_per_journals' = get_count_for_journals(metadata, cut)
    /\ pc' = "resolver"
    /\ UNCHANGED <<metadata, cut, file, current_list, updated, pos, hierarchy,
                   calls, status, writes, file0, noNewCodes,
                   prevOK, prevCodes>>

\* the process ends, by returning from main or by the uncaught Warning;
\* only journal_names.json outlives it
Exit ==
    /\ pc \in {"done", "raised"}
    /\ pc' = "main"
    /\ metadata' = <<>>
    /\ cut' = 0
    /\ counts_per_journals' = <<>>
    /\ current_list' = EmptyMap
    /\ updated' = FALSE
    /\ pos' = 0
    /\ hierarchy' = <<>>
    /\ calls' = <<>>
    /\ status' = 0
    /\ writes' = 0
    /\ file0' = file
    /\ noNewCodes' = FALSE
    /\ prevOK' = (pc = "done")
    /\ prevCodes' = IF pc = "done"
                    THEN {counts_per_journals[j].index :
                              j \in DOMAIN counts_per_journals}
                    ELSE {}
    /\ UNCHANGED file

Init ==
    /\ pc = "main"
    /\ metadata = <<>>
    /\ cut = 0
    /\ counts_per_journals = <<>>
    /\ file \in InitialFiles
    /\ current_list = EmptyMap
    /\ updated = FALSE
    /\ pos = 0
    /\ hierarchy = <<>>
    /\ calls = <<>>
    /\ status = 0
    /\ writes = 0
    /\ file0 = file
    /\ noNewCodes = FALSE
    /\ prevOK = FALSE
    /\ prevCodes = {}

Next ==
    \/ Query
    \/ GetCount
    \/ ResolverLoad
    \/ ResolverSkip
    \/ ResolverFound
    \/ ResolverRaise
    \/ ResolverSave
    \/ PlotPieChart
    \/ Exit

Spec == Init /\ [][Next]_vars

(***************************************************************************)
(* Vocabulary of the properties.                                           *)
(***************************************************************************)
\* get_count_for_journals has returned
Counted == pc \in {"resolver", "loop", "raised", "plot", "done"}

\* the resolver has loaded the dict
Loaded == pc \in {"loop", "raised", "plot", "done"}

\* the resolver has returned
Resolved == pc \in {"plot", "done"}

RECURSIVE Total(_)
Total(rows) == IF rows = <<>> THEN 0 ELSE Head(rows).n + Total(Tail(rows))

Rows(index) ==
    {j \in DOMAIN counts_per_journals : counts_per_journals[j].index = index}

\* number of records of the table whose journal code is code
RawCount(code) ==
    Cardinality({k \in DOMAIN metadata : Classify(metadata[k]) = code})

\* number of records whose code is empty or occurs less than cut times
Folded ==
    Cardinality({k \in DOMAIN metadata :
                    \/ Classify(metadata[k]) = <<>>
                    \/ RawCount(Classify(metadata[k])) < cut})

\* a bibcode without the year prefix or without a "."
Malformed(bibcode) ==
    Len(bibcode) < 4 \/ \A k \in DOMAIN bibcode : bibcode[k] # "."

\* every entry of d is in e, with the same name
Extends(e, d) == \A k \in DOMAIN d : k \in DOMAIN e /\ e[k] = d[k]

\* the codes in idx[1..k] that are absent from names and not "other"
Lookups(idx, k, names) ==
    LET Wanted(c) == c \notin DOMAIN names /\ c # other
    IN  SelectSeq(SubSeq(idx, 1, k), Wanted)

(***************************************************************************)
(* Properties.                                                             *)
(***************************************************************************)
\* C1: the counts get_count_for_journals returns add up to the number of
\* rows of the table, whatever the threshold.
CountsSumToRecords ==
    Counted => Total(counts_per_journals) = Len(metadata)

\* C1 witness: three records, two of them folded together into "other"
\* next to a code that is kept.
CountsSumWitness ==
    /\ pc = "resolver"
    /\ Len(metadata) = 3
    /\ Len(counts_per_journals) = 2
    /\ \E j \in Rows(other) : counts_per_journals[j].n = 2

\* C2: every returned entry other than "other" has a count of at least
\* the threshold and a non-empty code.
KeptCodesReachCut ==
    Counted =>
        \A j \in DOMAIN counts_per_journals :
            counts_per_journals[j].index # other =>
                /\ counts_per_journals[j].n >= cut
                /\ counts_per_journals[j].index # <<>>

\* C2 witness: threshold 2, one code kept with two records while a record
\* with an empty code is folded.
KeptCodesWitness ==
    /\ pc = "resolver"
    /\ cut = 2
    /\ \E k \in DOMAIN metadata : Classify(metadata[k]) = <<>>
    /\ \E j \in DOMAIN counts_per_journals :
           /\ counts_per_journals[j].index # other
           /\ counts_per_journals[j].n = 2

\* C8: the result has at most one "other" entry, and its count is the
\* number of records whose code is empty or occurs less often than the
\* threshold.
OtherHoldsTheFoldedRecords ==
    Counted =>
        /\ Cardinality(Rows(other)) <= 1
        /\ \A j \in Rows(other) : counts_per_journals[j].n = Folded

\* C9 as claimed: the record of every malformed bibcode ends up in "other",
\* never under a code of its own.
MalformedAlwaysFolded ==
    Counted =>
        \A k \in DOMAIN metadata :
            Malformed(metadata[k]) =>
                /\ Rows(other) # {}
                /\ \/ Classify(metadata[k]) = other
                   \/ Rows(Classify(metadata[k])) = {}

\* C9 as amended: a malformed bibcode classifies to the empty code when it
\* has nothing after the year prefix, and then its record is in "other";
\* when it classifies to a non-empty code that reaches the threshold, its
\* record is counted under that code like any other.
MalformedFoldedWhenEmpty ==
    Counted =>
        \A k \in DOMAIN metadata :
            Malformed(metadata[k]) =>
                LET code == Classify(metadata[k])
                IN  /\ Len(metadata[k]) <= 4 => code = <<>>
                    /\ code = <<>> => Rows(other) # {} /\ Rows(<<>>) = {}
                    /\ code = <<>> \/ RawCount(code) < cut =>
                           \E j \in Rows(other) :
                               counts_per_journals[j].n >= RawCount(code)
                    /\ code # <<>> /\ code # other /\ RawCount(code) >= cut =>
                           \E j \in Rows(code) :
                               counts_per_journals[j].n = RawCount(code)

\* C9 witness: a bibcode shorter than the year prefix folded into "other"
\* beside a bibcode without "." that is counted under its own code.
MalformedWitness ==
    /\ pc = "resolver"
    /\ \E k \in DOMAIN metadata : Len(metadata[k]) < 4
    /\ \E k \in DOMAIN metadata :
           /\ Malformed(metadata[k])
           /\ Classify(metadata[k]) \notin {<<>>, other}
           /\ Rows(Classify(metadata[k])) # {}
    /\ Rows(other) # {}

\* C3: once the resolver has returned, every index other than "other" is
\* a key of journal_names.json.
ResolvedCodesAreStored ==
    Resolved =>
        \A j \in DOMAIN counts_per_journals :
            counts_per_journals[j].index # other =>
                counts_per_journals[j].index \in DOMAIN file

\* C3 witness: the resolver returned after asking ADS for two codes and
\* rewriting the file.
ResolvedCodesWitness ==
    /\ pc = "plot"
    /\ Len(calls) = 2
    /\ writes = 1
    /\ \E j \in DOMAIN counts_per_journals :
           counts_per_journals[j].index \notin DOMAIN file0 \cup {other}

\* C4: a status other than 200 ends the resolver at once: the failing
\* request is the last one, nothing is written, the file is as it was when
\* the run began, and the process does nothing more before it ends.
RaiseAbortsTheRun ==
    [][/\ pc' = "raised" =>
            /\ status' # 200
            /\ writes' = 0
            /\ file' = file0'
            /\ calls' = Lookups(Index(counts_per_journals'), pos', file0')
            /\ calls'[Len(calls')] = counts_per_journals'[pos'].index
       /\ pc = "raised" => pc' = "main" /\ file' = file]_vars

\* C4 witness: the second of three requests failed after the first one had
\* put a name into the dict.
RaiseAbortsWitness ==
    /\ pc = "raised"
    /\ updated
    /\ current_list # file
    /\ Len(calls) = 2
    /\ Len(Lookups(Index(counts_per_journals), Len(counts_per_journals),
                   file0)) = 3

\* C5: a run that follows a successful run and has no index that run
\* lacked sends no request, does not write and leaves the file as it was.
SecondRunIsIdle ==
    noNewCodes =>
        /\ calls = <<>>
        /\ writes = 0
        /\ file = file0
        /\ pc # "raised"

\* C5 witness: such a second run got through the resolver with two
\* indexes that are journal codes.
SecondRunWitness ==
    /\ noNewCodes
    /\ pc = "done"
    /\ Cardinality({j \in DOMAIN counts_per_journals :
                       counts_per_journals[j].index # other}) = 2

\* C6: every step keeps every entry of journal_names.json and of the
\* resolver's dict; from the load on the dict holds every entry the file
\* had when the run began.
NameMapOnlyGrows ==
    [][/\ Extends(file', file)
       /\ Loaded' => Extends(current_list', file0')
       /\ Loaded /\ Loaded' => Extends(current_list', current_list)]_vars

\* C6 witness: a file that had an entry when the run began was rewritten
\* with one more.
NameMapGrowsWitness ==
    /\ pc = "plot"
    /\ file0 # EmptyMap
    /\ file # file0
    /\ writes = 1

\* C7: each row handed to the chart has the family the table gives for the
\* journal's name (the name itself when the table lacks it) and the name
\* as sub-journal, which is NaN when it equals the family.
FamilyAndSubJournal ==
    pc = "done" =>
        /\ Len(hierarchy) = Len(counts_per_journals)
        /\ \A j \in DOMAIN hierarchy :
               LET h    == hierarchy[j]
                   name == IF h.index = other THEN OtherLabel(cut)
                           ELSE file[h.index]
                   fam  == IF name \in DOMAIN principal_journal
                           THEN principal_journal[name] ELSE name
               IN  /\ h.index = counts_per_journals[j].index
                   /\ h.n = counts_per_journals[j].n
                   /\ h.family = fam
                   /\ h.sub = (IF name = fam THEN NaN ELSE name)
                   /\ h.sub # h.family

\* C7 witness: a journal named "Astronomy and Astrophysics" under its
\* family next to a journal that is its own family.
FamilyWitness ==
    /\ pc = "done"
    /\ \E j \in DOMAIN hierarchy :
           /\ hierarchy[j].family = AAJournals
           /\ hierarchy[j].sub = "Astronomy and Astrophysics"
    /\ \E j \in DOMAIN hierarchy :
           /\ hierarchy[j].family = "Icarus"
           /\ hierarchy[j].sub = NaN

\* C10: the requests of a run are, in the order of the index column and
\* once each, the indexes that are neither "other" nor keys of the file;
\* the file is written at most once, after the loop, only when a name was
\* added, and then holds the whole dict.
OneRequestPerCodeOneWrite ==
    Loaded =>
        LET idx == Index(counts_per_journals)
        IN  /\ \A j, k \in DOMAIN idx : idx[j] = idx[k] => j = k
            /\ \E k \in 0..Len(idx) : calls = Lookups(idx, k, file0)
            /\ Resolved /\ status \in {0, 200} =>
                   calls = Lookups(idx, Len(idx), file0)
            /\ writes <= 1
            /\ writes = 0 => file = file0
            /\ writes = 1 =>
                   /\ Resolved
                   /\ calls # <<>>
                   /\ file = current_list
                   /\ Extends(file, file0)
                   /\ \A k \in DOMAIN calls : calls[k] \in DOMAIN file
            /\ Resolved /\ calls # <<>> => writes = 1

\* C10 witness: three requests in the order of the index column, then the
\* one write.
OneWriteWitness ==
    /\ pc = "plot"
    /\ Len(calls) = 3
    /\ calls = Index(counts_per_journals)
    /\ writes = 1
    /\ file = current_list

====
